---- MODULE Spec2Model ----
(***************************************************************************)
(* A model of the double-buffered event collection Events<T> and of its    *)
(* EventReader<T> cursors (crates/bevy_app/src/event/event.rs).            *)
(*                                                                         *)
(* The program state is the six fields of Events<T> and, for every reader, *)
(* its last_event_count.  The remaining variables are history variables:   *)
(* they record what was sent, how many updates ran, what the last call     *)
(* returned, and the run of one reader, so that properties about returned  *)
(* values and about whole runs can be stated over states.  The operations  *)
(* are defined over the program state; they read the history only to bound *)
(* the number of update calls.  Each specification conjoins to them the    *)
(* history it records.                                                     *)
(***************************************************************************)
EXTENDS Integers, Sequences, FiniteSets, TLC

\* Bounds of the model: number of send calls and of update calls in a run.
MaxEvents == 3
MaxUpdates == 2

\* The event payload type T (two distinguishable values) and the readers.
T == {"x", "y"}
Readers == {"r1", "r2"}

\* The predicates handed to find_latest, each as the set of payloads it accepts.
Predicates == {{"x"}, {"y"}}

\* The reader whose whole run SpecRun records.
Observed == {"r1"}

VARIABLES
    events_a,             \* Events.events_a : Vec<EventInstance<T>>
    events_b,             \* Events.events_b
    a_start_event_count,  \* Events.a_start_event_count
    b_start_event_count,  \* Events.b_start_event_count
    event_count,          \* Events.event_count
    state,                \* Events.state : "A" | "B"
    made,                 \* reader -> an EventReader value exists
    last_event_count,     \* reader -> EventReader.last_event_count
    resources,            \* Resources: the types of the resources it holds
    panicked,             \* a call has panicked
    \* ---- history variables ----
    sent,                 \* every event ever sent, with the number of updates before it
    updates,              \* number of update calls so far
    op,                   \* the last call: its name, its reader, what it returned
    run                   \* reader -> the history of its run (SpecRun)

queue == <<events_a, events_b, a_start_event_count, b_start_event_count,
           event_count, state>>
readers == <<made, last_event_count>>
registry == <<resources, panicked>>
vars == <<events_a, events_b, a_start_event_count, b_start_event_count,
          event_count, state, made, last_event_count, resources, panicked,
          sent, updates, op, run>>

\* The type of the resource that holds the queue.
EventsT == "Events<T>"

----------------------------------------------------------------------------
\* Pure helpers

EventInstance(e, n) == [event_count |-> n, event |-> e]

map_event_instance(event_instance) == event_instance.event

MapSeq(s) == [i \in 1..Len(s) |-> map_event_instance(s[i])]

Rev(s) == [i \in 1..Len(s) |-> s[Len(s) + 1 - i]]

\* Iterator::next as an Option: a sequence of length 0 (None) or 1 (Some).
NextOf(s) == IF s = <<>> THEN <<>> ELSE <<s[1]>>

\* Iterator::filter(predicate)
Filter(s, P) == SelectSeq(s, LAMBDA i : map_event_instance(i) \in P)

\* slice.get(index..).unwrap_or_else(|| &[]): the slice from index to the end,
\* the empty slice when index is past the end.  (A call whose index could not
\* be computed yields nothing.)
SliceFrom(buf, index) ==
    IF index >= 0 /\ index <= Len(buf)
    THEN SubSeq(buf, index + 1, Len(buf))
    ELSE <<>>

\* x - y on usize.  The subtraction overflows when x < y (a panic where
\* overflow is checked); -1, which is no usize, stands for that failure.
usize_sub(x, y) == IF x >= y THEN x - y ELSE -1

\* A variant of a_index that subtracts without comparing first.
a_index_unclamped(last) == usize_sub(last, a_start_event_count)

a_index(last) ==
    IF last > a_start_event_count
    THEN usize_sub(last, a_start_event_count)
    ELSE 0

b_index(last) ==
    IF last > b_start_event_count
    THEN usize_sub(last, b_start_event_count)
    ELSE 0

\* Computing the two offsets of iter fails.
IndexFails(last) == a_index(last) < 0 \/ b_index(last) < 0

\* A variant of IterInstances that chains events_a before events_b whatever
\* buffer is active.
IterInstances_a_first(last) ==
    SliceFrom(events_a, a_index(last)) \o SliceFrom(events_b, b_index(last))

\* The chained slices of iter: the instances whose events it yields, in order.
IterInstances(last) ==
    IF state = "A"
    THEN SliceFrom(events_b, b_index(last)) \o SliceFrom(events_a, a_index(last))
    ELSE SliceFrom(events_a, a_index(last)) \o SliceFrom(events_b, b_index(last))

LatestInstance(last) == NextOf(Rev(IterInstances(last)))

\* A variant of FindLatestInstance that scans from the oldest.
FindLatestInstance_oldest(last, P) == NextOf(Filter(IterInstances(last), P))

FindLatestInstance(last, P) == NextOf(Filter(Rev(IterInstances(last)), P))

\* A variant of EarliestInstance that takes the first instance of the active buffer.
EarliestInstance_active(last) ==
    NextOf(IF state = "A" THEN SliceFrom(events_a, a_index(last))
                          ELSE SliceFrom(events_b, b_index(last)))

EarliestInstance(last) == NextOf(IterInstances(last))

----------------------------------------------------------------------------
\* Events::default(), and no reader made yet.

Default ==
    /\ events_a = <<>>
    /\ events_b = <<>>
    /\ a_start_event_count = 0
    /\ b_start_event_count = 0
    /\ event_count = 0
    /\ state = "A"

\* A variant of send that stamps the instance with the incremented counter.
send_stamps_after(e) ==
    /\ event_count < MaxEvents
    /\ IF state = "A"
       THEN /\ events_a' = Append(events_a, EventInstance(e, event_count + 1))
            /\ UNCHANGED events_b
       ELSE /\ events_b' = Append(events_b, EventInstance(e, event_count + 1))
            /\ UNCHANGED events_a
    /\ event_count' = event_count + 1
    /\ UNCHANGED <<a_start_event_count, b_start_event_count, state>>
    /\ UNCHANGED <<made, last_event_count>>

\* A variant of send that pushes onto the buffer that is not active.
send_to_inactive(e) ==
    /\ event_count < MaxEvents
    /\ IF state = "A"
       THEN /\ events_b' = Append(events_b, EventInstance(e, event_count))
            /\ UNCHANGED events_a
       ELSE /\ events_a' = Append(events_a, EventInstance(e, event_count))
            /\ UNCHANGED events_b
    /\ event_count' = event_count + 1
    /\ UNCHANGED <<a_start_event_count, b_start_event_count, state>>
    /\ UNCHANGED <<made, last_event_count>>

\* Events::send
send(e) ==
    /\ event_count < MaxEvents
    /\ IF state = "A"
       THEN /\ events_a' = Append(events_a, EventInstance(e, event_count))
            /\ UNCHANGED events_b
       ELSE /\ events_b' = Append(events_b, EventInstance(e, event_count))
            /\ UNCHANGED events_a
    /\ event_count' = event_count + 1
    /\ UNCHANGED <<a_start_event_count, b_start_event_count, state>>
    /\ UNCHANGED readers

\* A variant of update that clears the buffer that was active.
update_clears_active ==
    /\ updates < MaxUpdates
    /\ IF state = "A"
       THEN /\ events_a' = <<>>
            /\ state' = "B"
            /\ b_start_event_count' = event_count
            /\ UNCHANGED <<events_b, a_start_event_count>>
       ELSE /\ events_b' = <<>>
            /\ state' = "A"
            /\ a_start_event_count' = event_count
            /\ UNCHANGED <<events_a, b_start_event_count>>
    /\ UNCHANGED event_count
    /\ UNCHANGED <<made, last_event_count>>

\* A variant of update that does not restamp the start marker.
update_keeps_marker ==
    /\ updates < MaxUpdates
    /\ IF state = "A"
       THEN /\ events_b' = <<>>
            /\ state' = "B"
            /\ UNCHANGED <<events_a, a_start_event_count, b_start_event_count>>
       ELSE /\ events_a' = <<>>
            /\ state' = "A"
            /\ UNCHANGED <<events_b, a_start_event_count, b_start_event_count>>
    /\ UNCHANGED event_count
    /\ UNCHANGED <<made, last_event_count>>

\* A variant of update that swaps the buffers without clearing the oldest.
update_keeps_oldest ==
    /\ updates < MaxUpdates
    /\ IF state = "A"
       THEN /\ state' = "B"
            /\ b_start_event_count' = event_count
            /\ UNCHANGED <<events_a, events_b, a_start_event_count>>
       ELSE /\ state' = "A"
            /\ a_start_event_count' = event_count
            /\ UNCHANGED <<events_a, events_b, b_start_event_count>>
    /\ UNCHANGED event_count
    /\ UNCHANGED <<made, last_event_count>>

\* Events::update
update ==
    /\ updates < MaxUpdates
    /\ IF state = "A"
       THEN /\ events_b' = <<>>
            /\ state' = "B"
            /\ b_start_event_count' = event_count
            /\ UNCHANGED <<events_a, a_start_event_count>>
       ELSE /\ events_a' = <<>>
            /\ state' = "A"
            /\ a_start_event_count' = event_count
            /\ UNCHANGED <<events_b, b_start_event_count>>
    /\ UNCHANGED event_count
    /\ UNCHANGED readers

\* A variant of get_reader that starts at the queue's counter.
get_reader_at_count(r) ==
    /\ ~made[r]
    /\ made' = [made EXCEPT ![r] = TRUE]
    /\ last_event_count' = [last_event_count EXCEPT ![r] = event_count]
    /\ UNCHANGED queue

\* Events::get_reader
get_reader(r) ==
    /\ ~made[r]
    /\ made' = [made EXCEPT ![r] = TRUE]
    /\ last_event_count' = [last_event_count EXCEPT ![r] = 0]
    /\ UNCHANGED queue

\* A variant of get_reader_current that starts at 0.
get_reader_current_at_zero(r) ==
    /\ ~made[r]
    /\ made' = [made EXCEPT ![r] = TRUE]
    /\ last_event_count' = [last_event_count EXCEPT ![r] = 0]
    /\ UNCHANGED queue

\* Events::get_reader_current
get_reader_current(r) ==
    /\ ~made[r]
    /\ made' = [made EXCEPT ![r] = TRUE]
    /\ last_event_count' = [last_event_count EXCEPT ![r] = event_count]
    /\ UNCHANGED queue

\* A variant of iter that moves the counter to the last sequence number yielded.
iter_to_last_yielded(r) ==
    /\ made[r]
    /\ last_event_count' =
          [last_event_count EXCEPT ![r] =
              IF IterInstances(@) = <<>>
              THEN @
              ELSE IterInstances(@)[Len(IterInstances(@))].event_count]
    /\ UNCHANGED made
    /\ UNCHANGED queue

\* A variant of iter that moves the counter to the number of stored events.
iter_to_stored_count(r) ==
    /\ made[r]
    /\ last_event_count' =
          [last_event_count EXCEPT ![r] = Len(events_a) + Len(events_b)]
    /\ UNCHANGED made
    /\ UNCHANGED queue

\* A variant of iter that keeps one counter for all readers.
iter_shared_counter(r) ==
    /\ made[r]
    /\ last_event_count' = [s \in Readers |-> event_count]
    /\ UNCHANGED made
    /\ UNCHANGED queue

\* EventReader::iter: the reader's counter moves to the queue's, the queue is
\* only borrowed.  What the call yields is IterInstances of the old counter.
iter(r) ==
    /\ made[r]
    /\ last_event_count' = [last_event_count EXCEPT ![r] = event_count]
    /\ UNCHANGED made
    /\ UNCHANGED queue

\* EventReader::latest, find_latest and earliest all go through iter.
latest(r) == iter(r)

\* A variant of find_latest that moves the counter past the match only.
find_latest_to_match(r, P) ==
    /\ made[r]
    /\ last_event_count' =
          [last_event_count EXCEPT ![r] =
              IF FindLatestInstance(@, P) = <<>>
              THEN @
              ELSE FindLatestInstance(@, P)[1].event_count + 1]
    /\ UNCHANGED made
    /\ UNCHANGED queue

find_latest(r, P) == iter(r)

earliest(r) == iter(r)

\* A variant of get_event_reader that puts a default queue into the resources
\* when there is none and returns a reader of it.
get_event_reader_or_default(r) ==
    /\ get_reader(r)
    /\ resources' = resources \cup {EventsT}
    /\ UNCHANGED panicked

\* Resources::get_event_reader::<T>(), the reader kept as r:
\* self.get::<Events<T>>() is None when the resources hold no Events<T>, and
\* the call panics; otherwise it is get_reader of that queue.
get_event_reader(r) ==
    IF EventsT \in resources
    THEN get_reader(r) /\ UNCHANGED registry
    ELSE /\ panicked' = TRUE
         /\ UNCHANGED <<queue, readers, resources>>

----------------------------------------------------------------------------
\* History of the calls: with every call, op records what it returned.

Call(name, r, last, P, insts) ==
    [name |-> name, reader |-> r, last_before |-> last, pred |-> P,
     instances |-> insts, result |-> MapSeq(insts), panic |-> IndexFails(last)]

NoCall(name) == Call(name, "-", 0, {}, <<>>)

NoRun ==
    [kind |-> "none", born |-> 0, idle |-> 0, since |-> 0, faithful |-> TRUE,
     reads |-> 0, slept |-> 0, again |-> FALSE, fresh |-> FALSE,
     due |-> FALSE, regular |-> TRUE, delivered |-> <<>>]

\* A new queue, no reader yet, no call made.
Start ==
    /\ Default
    /\ made = [r \in Readers |-> FALSE]
    /\ last_event_count = [r \in Readers |-> 0]
    /\ panicked = FALSE
    /\ sent = <<>>
    /\ updates = 0
    /\ op = NoCall("default")
    /\ run = [r \in Readers |-> NoRun]

\* The queue stands alone, in no Resources (as in tests::test_events).
Init == Start /\ resources = {}

Sent(e) == [event |-> e, event_count |-> event_count, epoch |-> updates]

LogSend(e) ==
    /\ sent' = Append(sent, Sent(e))
    /\ op' = NoCall("send")
    /\ UNCHANGED updates
    /\ UNCHANGED registry

LogUpdate ==
    /\ updates' = updates + 1
    /\ op' = NoCall("update")
    /\ UNCHANGED sent
    /\ UNCHANGED registry

LogCall(name, r, P, insts) ==
    /\ op' = Call(name, r, last_event_count[r], P, insts)
    /\ UNCHANGED <<sent, updates>>
    /\ UNCHANGED registry

Send(e) == send(e) /\ LogSend(e) /\ UNCHANGED run

Update == update /\ LogUpdate /\ UNCHANGED run

GetReader(r) ==
    get_reader(r) /\ LogCall("get_reader", r, {}, <<>>) /\ UNCHANGED run

GetReaderCurrent(r) ==
    get_reader_current(r) /\ LogCall("get_reader_current", r, {}, <<>>)
                          /\ UNCHANGED run

Iter(r) ==
    iter(r) /\ LogCall("iter", r, {}, IterInstances(last_event_count[r]))
            /\ UNCHANGED run

Latest(r) ==
    latest(r) /\ LogCall("latest", r, {}, LatestInstance(last_event_count[r]))
              /\ UNCHANGED run

FindLatest(r, P) ==
    find_latest(r, P)
        /\ LogCall("find_latest", r, P, FindLatestInstance(last_event_count[r], P))
        /\ UNCHANGED run

Earliest(r) ==
    earliest(r) /\ LogCall("earliest", r, {}, EarliestInstance(last_event_count[r]))
                /\ UNCHANGED run

Next ==
    \/ \E e \in T : Send(e)
    \/ Update
    \/ \E r \in Readers : GetReader(r)
    \/ \E r \in Readers : GetReaderCurrent(r)
    \/ \E r \in Readers : Iter(r)
    \/ \E r \in Readers : Latest(r)
    \/ \E r \in Readers, P \in Predicates : FindLatest(r, P)
    \/ \E r \in Readers : Earliest(r)

\* Any interleaving of the calls on one queue and its readers.
Spec == Init /\ [][Next]_vars

----------------------------------------------------------------------------
\* History of one reader's run.  SpecRun follows one reader that reads with
\* iter, under any interleaving with send and update, and records for it
\*   kind      which call made it,
\*   born      event_count when it was made,
\*   idle      the updates since it was made or last read,
\*   since     the updates since its last iter (since the start if none),
\*   faithful  no two updates have passed without an iter of it in between,
\*   reads     the number of its iters (counted up to 2),
\*   slept     the value of idle when its last iter began,
\*   again     nothing was sent between its last iter and the iter before,
\*   fresh     it has read and nothing was sent since,
\*   delivered the instances all its iters yielded, in order.

RunSend(e) ==
    /\ send(e)
    /\ LogSend(e)
    /\ run' = [r \in Readers |-> [run[r] EXCEPT !.fresh = FALSE]]

RunUpdate ==
    /\ update
    /\ LogUpdate
    /\ run' = [r \in Readers |->
                 [run[r] EXCEPT !.idle = IF made[r] THEN @ + 1 ELSE @,
                                !.faithful = @ /\ run[r].since = 0,
                                !.since = @ + 1]]

RunMade(r, kind) ==
    /\ LogCall(kind, r, {}, <<>>)
    /\ run' = [run EXCEPT ![r].kind = kind, ![r].born = event_count]

RunGetReader(r) == get_reader(r) /\ RunMade(r, "get_reader")

RunGetReaderCurrent(r) ==
    get_reader_current(r) /\ RunMade(r, "get_reader_current")

RunIter(r) ==
    /\ iter(r)
    /\ LogCall("iter", r, {}, IterInstances(last_event_count[r]))
    /\ run' = [run EXCEPT
                 ![r].idle = 0,
                 ![r].since = 0,
                 ![r].reads = IF @ < 2 THEN @ + 1 ELSE @,
                 ![r].slept = run[r].idle,
                 ![r].again = run[r].fresh,
                 ![r].fresh = TRUE,
                 ![r].delivered = @ \o IterInstances(last_event_count[r])]

NextRun ==
    \/ \E e \in T : RunSend(e)
    \/ RunUpdate
    \/ \E r \in Observed : RunGetReader(r)
    \/ \E r \in Observed : RunGetReaderCurrent(r)
    \/ \E r \in Observed : RunIter(r)

SpecRun == Init /\ [][NextRun]_vars

----------------------------------------------------------------------------
\* History of every reader's run.  SpecPair follows all the readers, each
\* made by either call and reading with iter whenever it likes, and records
\* for each of them
\*   regular   since it was made, no two updates have passed without an
\*             iter of it in between,
\* and, as long as it is regular,
\*   due       an update has passed since it was made or last read,
\*   delivered the instances all its iters yielded, in order.

PairUpdate ==
    /\ update
    /\ LogUpdate
    /\ run' = [r \in Readers |->
                 [run[r] EXCEPT !.due = made[r] /\ run[r].regular,
                                !.regular = @ /\ ~run[r].due,
                                !.delivered = IF run[r].due THEN <<>> ELSE @]]

PairIter(r) ==
    /\ iter(r)
    /\ LogCall("iter", r, {}, IterInstances(last_event_count[r]))
    /\ run' = [run EXCEPT
                 ![r].due = FALSE,
                 ![r].delivered = IF run[r].regular
                                  THEN @ \o IterInstances(last_event_count[r])
                                  ELSE @]

NextPair ==
    \/ \E e \in T : Send(e)
    \/ PairUpdate
    \/ \E r \in Readers : GetReader(r)
    \/ \E r \in Readers : GetReaderCurrent(r)
    \/ \E r \in Readers : PairIter(r)

SpecPair == Init /\ [][NextPair]_vars

----------------------------------------------------------------------------
\* The queue as a resource.  SpecReg starts with or without the queue among
\* the resources; readers are made by get_event_reader only, and nothing
\* runs after a panic.

InitReg == Start /\ resources \in SUBSET {EventsT}

GetEventReader(r) ==
    /\ get_event_reader(r)
    /\ op' = [Call("get_event_reader", r, last_event_count[r], {}, <<>>)
                 EXCEPT !.panic = panicked']
    /\ UNCHANGED <<sent, updates, run>>

NextReg ==
    /\ ~panicked
    /\ \/ \E e \in T : Send(e)
       \/ Update
       \/ \E r \in Readers : GetEventReader(r)
       \/ \E r \in Readers : Iter(r)

SpecReg == InitReg /\ [][NextReg]_vars

----------------------------------------------------------------------------
\* Vocabulary of the properties

ReadNames == {"iter", "latest", "find_latest", "earliest"}

\* The buffer that was active before the most recent update, and the active one.
Older == IF state = "A" THEN events_b ELSE events_a

Active == IF state = "A" THEN events_a ELSE events_b

SeqNums(s) == [i \in 1..Len(s) |-> s[i].event_count]

StrictlyIncreasing(ns) == \A i \in 1..(Len(ns) - 1) : ns[i] < ns[i + 1]

\* The instances of a buffer with sequence number at least L, in buffer order.
Unseen(buf, L) == SelectSeq(buf, LAMBDA i : i.event_count >= L)

Stored(i) ==
    \/ \E k \in 1..Len(events_a) : events_a[k] = i
    \/ \E k \in 1..Len(events_b) : events_b[k] = i

InstanceOf(s) == EventInstance(s.event, s.event_count)

----------------------------------------------------------------------------
\* C1: iter called with last-seen number L yields exactly the instances held
\* in the two buffers whose sequence number is at least L, each once and in
\* increasing sequence order: those of the older buffer first, those of the
\* active buffer second.
C1_IterYieldsUnseen ==
    op.name = "iter" =>
        /\ op.instances = Unseen(Older, op.last_before) \o Unseen(Active, op.last_before)
        /\ StrictlyIncreasing(SeqNums(op.instances))
        /\ \A i \in {InstanceOf(sent[k]) : k \in 1..Len(sent)} :
              (Stored(i) /\ i.event_count >= op.last_before)
                  <=> (\E k \in 1..Len(op.instances) : op.instances[k] = i)
        /\ op.result = [k \in 1..Len(op.instances) |-> op.instances[k].event]

\* An iter that skipped a seen event of the older buffer and yielded from both.
C1_Witness ==
    /\ op.name = "iter"
    /\ op.last_before > 0
    /\ Len(Older) > Len(Unseen(Older, op.last_before))
    /\ Unseen(Older, op.last_before) # <<>>
    /\ Unseen(Active, op.last_before) # <<>>
    /\ Len(op.result) = 2

\* C4: a sent event is stored in one of the two buffers exactly until the
\* second update after its send: present after none and after one update,
\* absent after two.
C4_StoredUntilSecondUpdate ==
    \A k \in 1..Len(sent) :
        Stored(InstanceOf(sent[k])) <=> (updates - sent[k].epoch < 2)

\* After an update, one event has seen one update and is stored, another has
\* seen two and is gone.
C4_Witness ==
    /\ op.name = "update"
    /\ \E j, k \in 1..Len(sent) :
          /\ updates - sent[j].epoch = 1 /\ Stored(InstanceOf(sent[j]))
          /\ updates - sent[k].epoch = 2 /\ ~Stored(InstanceOf(sent[k]))

\* C6: every read (iter, latest, find_latest, earliest) leaves the reader's
\* last_event_count equal to the queue's event_count, whatever it returned;
\* find_latest does so also when unseen events did not match its predicate.
C6_ReadAdvancesToEventCount ==
    op.name \in ReadNames => last_event_count[op.reader] = event_count

\* A find_latest that returned nothing although unseen events were stored.
C6_Witness ==
    /\ op.name = "find_latest"
    /\ op.result = <<>>
    /\ Len(Unseen(Older, op.last_before) \o Unseen(Active, op.last_before)) = 2
    /\ op.last_before < event_count
    /\ last_event_count[op.reader] = event_count

C7_Step ==
    op'.name \in ReadNames =>
        /\ queue' = queue
        /\ \A s \in Readers \ {op'.reader} :
              /\ made'[s] = made[s]
              /\ last_event_count'[s] = last_event_count[s]
              /\ IterInstances(last_event_count[s])' = IterInstances(last_event_count[s])

\* C7: a read by one reader changes neither the queue nor any other reader,
\* and so leaves unchanged what a read of any other reader yields (latest,
\* find_latest and earliest pick from what iter yields).
C7_ReadersIndependent == [][C7_Step]_vars

\* A read that returned events while the other reader still has unseen ones.
C7_Witness ==
    /\ op.name \in ReadNames
    /\ op.result # <<>>
    /\ \E s \in Readers \ {op.reader} :
          /\ made[s]
          /\ last_event_count[s] < event_count
          /\ IterInstances(last_event_count[s]) # <<>>

C10_State ==
    /\ event_count = Len(sent)
    /\ \A k \in 1..Len(sent) :
          Stored(InstanceOf(sent[k])) =>
              Stored(EventInstance(sent[k].event, k - 1))
    /\ \A k \in 1..Len(Active) : Active[k].event_count < event_count
    /\ op.name = "send" =>
          /\ Active # <<>>
          /\ Active[Len(Active)].event_count = Len(sent) - 1

C10_Step ==
    /\ event_count' >= event_count
    /\ op'.name = "send" => event_count' = event_count + 1
    /\ op'.name = "update" => event_count' = event_count

\* C10: the sequence numbers send assigns are 0, 1, 2, ...; event_count is
\* the number of events ever sent, never decreases, and update leaves it alone.
C10_MonotonicSequencing == [](C10_State) /\ [][C10_Step]_vars

\* Three events sent across an update.
C10_Witness ==
    /\ op.name = "send"
    /\ event_count = 3
    /\ updates >= 1
    /\ Active[Len(Active)].event_count = 2

----------------------------------------------------------------------------
\* Properties of one reader's run (SpecRun)

SentInstances == [k \in 1..Len(sent) |-> InstanceOf(sent[k])]

SentEvents == [k \in 1..Len(sent) |-> sent[k].event]

Instances(ss) == [k \in 1..Len(ss) |-> InstanceOf(ss[k])]

InSeq(x, xs) == \E k \in 1..Len(xs) : xs[k] = x

JustRead(r) == op.name = "iter" /\ op.reader = r

\* The first sequence number a reader is entitled to: 0 when made by
\* get_reader, the queue's event_count at that time when made by
\* get_reader_current.
Entitled(r) == IF run[r].kind = "get_reader" THEN 0 ELSE run[r].born

\* C2: a reader that calls iter between every two consecutive updates is
\* yielded every event sent (from the start when made by get_reader, since
\* it was made when made by get_reader_current), in send order and once:
\* after each of its iters the concatenation of all its iters' yields is the
\* sequence of those events, and between iters what is missing from it is
\* what the next iter would yield.
C2_ReadEveryUpdateSeesAll ==
    \A r \in Observed :
        (made[r] /\ run[r].faithful) =>
            /\ run[r].delivered \o IterInstances(last_event_count[r])
                  = SubSeq(SentInstances, Entitled(r) + 1, Len(sent))
            /\ (JustRead(r) /\ run[r].kind = "get_reader") =>
                  /\ run[r].delivered = SentInstances
                  /\ MapSeq(run[r].delivered) = SentEvents

\* Two iters, one between the two updates and one after, have yielded the
\* three events sent before, between and after the updates.
C2_Witness ==
    \E r \in Observed :
        /\ JustRead(r)
        /\ run[r].kind = "get_reader"
        /\ run[r].faithful
        /\ run[r].reads = 2
        /\ updates = 2
        /\ Len(sent) = 3
        /\ sent[1].epoch = 0 /\ sent[2].epoch = 1 /\ sent[3].epoch = 2
        /\ run[r].delivered = SentInstances

\* C3: an iter of a reader that neither was made nor read during the last
\* two updates (or more) yields exactly the events sent between the last two
\* updates and after the last one, in send order; the unseen events sent
\* before the first of the two are never yielded to it.
C3_TwoUpdatesDropOlder ==
    \A r \in Observed :
        (JustRead(r) /\ run[r].slept >= 2) =>
            /\ op.instances =
                  Instances(SelectSeq(sent, LAMBDA x : x.epoch >= updates - 1))
            /\ \A k \in 1..Len(sent) :
                  (sent[k].epoch < updates - 1 /\ sent[k].event_count >= op.last_before)
                      => ~InSeq(InstanceOf(sent[k]), run[r].delivered)

\* An iter after two updates without a read: one event from before the first
\* update is lost, one from between and one from after are yielded.
C3_Witness ==
    \E r \in Observed :
        /\ JustRead(r)
        /\ run[r].slept = 2
        /\ Len(sent) = 3
        /\ sent[1].epoch = updates - 2
        /\ sent[2].epoch = updates - 1
        /\ sent[3].epoch = updates
        /\ op.last_before = 0
        /\ op.instances = <<InstanceOf(sent[2]), InstanceOf(sent[3])>>

\* C5: an iter yields something exactly when a stored event has a sequence
\* number at least the reader's counter, and an iter that follows an iter of
\* the same reader with no send in between yields nothing.
C5_SecondIterEmpty ==
    \A r \in Observed :
        JustRead(r) =>
            /\ run[r].again => op.result = <<>>
            /\ (op.result # <<>>) <=>
                  \E k \in 1..Len(sent) :
                      /\ Stored(InstanceOf(sent[k]))
                      /\ sent[k].event_count >= op.last_before

\* The first iter yielded two events, the second, right after, none.
C5_Witness ==
    \E r \in Observed :
        /\ JustRead(r)
        /\ run[r].again
        /\ run[r].reads = 2
        /\ Len(run[r].delivered) = 2
        /\ op.result = <<>>

\* C8: the first iter of a reader made by get_reader, with no update so far,
\* yields all the events sent so far in send order: exactly the N sent before
\* the reader was made when none was sent since.
C8_NewReaderSeesAllSent ==
    \A r \in Observed :
        (JustRead(r) /\ run[r].kind = "get_reader" /\ run[r].reads = 1 /\ updates = 0) =>
            /\ op.result = SentEvents
            /\ op.instances = SentInstances
            /\ event_count = run[r].born => Len(op.result) = run[r].born

\* A reader made after two sends reads the two.
C8_Witness ==
    \E r \in Observed :
        /\ JustRead(r)
        /\ run[r].kind = "get_reader"
        /\ run[r].reads = 1
        /\ updates = 0
        /\ run[r].born = 2
        /\ event_count = 2
        /\ Len(op.result) = 2

\* C9: get_reader_current makes a reader whose counter is the queue's
\* event_count; nothing it is ever yielded, and nothing a read of it would
\* yield, was sent before it was made; its first iter yields exactly the
\* stored events sent after it was made, in send order.
C9_CurrentReaderSeesOnlyFuture ==
    \A r \in Observed :
        /\ (op.name = "get_reader_current" /\ op.reader = r)
              => last_event_count[r] = event_count
        /\ run[r].kind = "get_reader_current" =>
              /\ \A k \in 1..Len(run[r].delivered) :
                    run[r].delivered[k].event_count >= run[r].born
              /\ \A k \in 1..Len(IterInstances(last_event_count[r])) :
                    IterInstances(last_event_count[r])[k].event_count >= run[r].born
              /\ (JustRead(r) /\ run[r].reads = 1) =>
                    op.instances =
                        Instances(SelectSeq(sent, LAMBDA x :
                            /\ x.event_count >= run[r].born
                            /\ Stored(InstanceOf(x))))

\* A reader made after one send first reads, after an update, the two events
\* sent since; the event sent before it was made is still stored.
C9_Witness ==
    \E r \in Observed :
        /\ JustRead(r)
        /\ run[r].kind = "get_reader_current"
        /\ run[r].reads = 1
        /\ run[r].born = 1
        /\ Stored(InstanceOf(sent[1]))
        /\ updates = 1
        /\ Len(op.result) = 2

----------------------------------------------------------------------------
\* The start markers of the two buffers.
OlderStart == IF state = "A" THEN b_start_event_count ELSE a_start_event_count

ActiveStart == IF state = "A" THEN a_start_event_count ELSE b_start_event_count

\* C18: within each buffer the sequence numbers are strictly increasing and
\* contiguous with the buffer's start marker: the element at index i (from 0)
\* carries the start marker plus i.
C18_BufferContiguous ==
    /\ \A k \in 1..Len(events_a) :
          events_a[k].event_count = a_start_event_count + (k - 1)
    /\ \A k \in 1..Len(events_b) :
          events_b[k].event_count = b_start_event_count + (k - 1)
    /\ StrictlyIncreasing(SeqNums(events_a))
    /\ StrictlyIncreasing(SeqNums(events_b))

\* Both buffers hold events, and a restamped one holds two.
C18_Witness ==
    /\ events_a # <<>>
    /\ Len(events_b) = 2
    /\ b_start_event_count = 1
    /\ events_b[2].event_count = 2

\* C20: the two buffers abut: the older buffer's start marker plus its length
\* is the active buffer's start marker, and that plus the active buffer's
\* length is event_count; the stored events are exactly those with sequence
\* numbers from the older start marker up to event_count.
C20_BuffersAbut ==
    /\ OlderStart + Len(Older) = ActiveStart
    /\ ActiveStart + Len(Active) = event_count
    /\ SeqNums(Older \o Active) =
          [k \in 1..(event_count - OlderStart) |-> OlderStart + (k - 1)]
    /\ \A k \in 1..Len(sent) :
          Stored(InstanceOf(sent[k])) <=> sent[k].event_count >= OlderStart

\* An event was dropped, and each buffer holds one of the two that remain.
C20_Witness ==
    /\ OlderStart = 1
    /\ ActiveStart = 2
    /\ event_count = 3
    /\ Len(Older) = 1
    /\ Len(Active) = 1

----------------------------------------------------------------------------
C16_Step ==
    op'.name = "update" =>
        /\ state' # state
        /\ Active' = <<>>
        /\ ActiveStart' = event_count
        /\ event_count' = event_count
        /\ Older' = Active
        /\ OlderStart' = ActiveStart
        /\ IF state = "A"
           THEN events_a' = events_a /\ a_start_event_count' = a_start_event_count
           ELSE events_b' = events_b /\ b_start_event_count' = b_start_event_count

\* C16: update clears the buffer that is not active, makes it the active one
\* and sets its start marker to event_count; event_count, the contents of the
\* buffer that was active and that buffer's start marker stay as they were,
\* so the newly active buffer is empty right after every update.
C16_UpdateFrame == [][C16_Step]_vars

\* An update that cleared a buffer holding an event and kept one holding another.
C16_Witness ==
    /\ op.name = "update"
    /\ updates = 2
    /\ Len(Older) = 1
    /\ Active = <<>>
    /\ ActiveStart = 2
    /\ OlderStart = 1
    /\ \E k \in 1..Len(sent) : ~Stored(InstanceOf(sent[k]))

C17_Step ==
    op'.name = "send" =>
        /\ Active' = Append(Active,
                            EventInstance(sent'[Len(sent')].event, event_count))
        /\ event_count' = event_count + 1
        /\ Older' = Older
        /\ a_start_event_count' = a_start_event_count
        /\ b_start_event_count' = b_start_event_count
        /\ state' = state

\* C17: send appends one instance carrying the pre-call event_count to the
\* end of the active buffer and adds 1 to event_count; the other buffer, both
\* start markers, the state and the elements already in the active buffer
\* stay as they were.
C17_SendFrame == [][C17_Step]_vars

\* A send onto an active buffer that held an event, the other holding one too.
C17_Witness ==
    /\ op.name = "send"
    /\ Len(Active) = 2
    /\ Len(Older) = 1
    /\ Active[2].event_count = 2
    /\ event_count = 3

----------------------------------------------------------------------------
C19_State ==
    \A r \in Readers : made[r] => last_event_count[r] <= event_count

C19_Step ==
    \A r \in Readers :
        made[r] =>
            /\ last_event_count'[r] >= last_event_count[r]
            /\ (op'.name \in ReadNames /\ op'.reader = r)
                  => last_event_count'[r] = event_count

\* C19: no step, and so no read, decreases a reader's last_event_count, and
\* the last_event_count of a reader made by get_reader or get_reader_current
\* never exceeds the queue's event_count.
C19_CounterMonotone == [](C19_State) /\ [][C19_Step]_vars

\* A reader that had read one event read again after two updates and a send.
C19_Witness ==
    /\ op.name \in ReadNames
    /\ op.last_before = 1
    /\ last_event_count[op.reader] = 2
    /\ updates = 2
    /\ \E s \in Readers \ {op.reader} : made[s] /\ last_event_count[s] < event_count

----------------------------------------------------------------------------
\* The stored instances a reader with counter L has not seen, and those of
\* them a predicate accepts.
StoredSet ==
    {events_a[k] : k \in 1..Len(events_a)} \cup {events_b[k] : k \in 1..Len(events_b)}

Candidates(L) == {i \in StoredSet : i.event_count >= L}

Matching(L, P) == {i \in Candidates(L) : i.event \in P}

Newest(S) == CHOOSE i \in S : \A j \in S : j.event_count <= i.event_count

Oldest(S) == CHOOSE i \in S : \A j \in S : j.event_count >= i.event_count

\* C12: latest returns the unseen stored event with the highest sequence
\* number, which is the last one iter would yield in the same state, and
\* find_latest returns the one with the highest sequence number among those
\* the predicate accepts; each returns None exactly when there is none.
C12_LatestAndFindLatest ==
    /\ op.name = "latest" =>
          /\ op.instances = IF Candidates(op.last_before) = {}
                            THEN <<>>
                            ELSE <<Newest(Candidates(op.last_before))>>
          /\ op.instances = IF IterInstances(op.last_before) = <<>>
                            THEN <<>>
                            ELSE <<IterInstances(op.last_before)
                                       [Len(IterInstances(op.last_before))]>>
          /\ op.result = [k \in 1..Len(op.instances) |-> op.instances[k].event]
    /\ op.name = "find_latest" =>
          /\ op.instances = IF Matching(op.last_before, op.pred) = {}
                            THEN <<>>
                            ELSE <<Newest(Matching(op.last_before, op.pred))>>
          /\ op.result = [k \in 1..Len(op.instances) |-> op.instances[k].event]

\* A find_latest over three unseen events: the predicate accepts the two
\* older ones and rejects the newest, and the second is returned.
C12_Witness ==
    /\ op.name = "find_latest"
    /\ Cardinality(Candidates(op.last_before)) = 3
    /\ Cardinality(Matching(op.last_before, op.pred)) = 2
    /\ Newest(Candidates(op.last_before)).event \notin op.pred
    /\ Len(op.instances) = 1
    /\ op.instances[1].event_count = op.last_before + 1

----------------------------------------------------------------------------
C13_State ==
    op.name = "earliest" =>
        /\ op.instances = IF Candidates(op.last_before) = {}
                          THEN <<>>
                          ELSE <<Oldest(Candidates(op.last_before))>>
        /\ op.instances = IF IterInstances(op.last_before) = <<>>
                          THEN <<>>
                          ELSE <<IterInstances(op.last_before)[1]>>
        /\ op.result = [k \in 1..Len(op.instances) |-> op.instances[k].event]
        /\ last_event_count[op.reader] = event_count
        /\ Candidates(last_event_count[op.reader]) = {}
        /\ IterInstances(last_event_count[op.reader]) = <<>>

\* What a read of a made reader would yield gains only events sent by this
\* very step: an event that has left it never comes back.
C13_Step ==
    \A r \in Readers :
        made[r] =>
            \A i \in Candidates(last_event_count[r])' :
                \/ i \in Candidates(last_event_count[r])
                \/ i.event_count >= event_count

\* C13: earliest returns the unseen stored event with the lowest sequence
\* number, the first one iter would yield in the same state (None if there
\* is none), and moves the reader's counter to event_count, so that the
\* other unseen events are yielded by no later read of that reader.
C13_EarliestSkipsTheRest == [](C13_State) /\ [][C13_Step]_vars

\* An earliest that returned the first of three unseen events, two of them
\* in the older buffer.
C13_Witness ==
    /\ op.name = "earliest"
    /\ Cardinality(Candidates(op.last_before)) = 3
    /\ Len(Older) = 2
    /\ Len(op.instances) = 1
    /\ op.instances[1].event_count = 0
    /\ last_event_count[op.reader] = 3

----------------------------------------------------------------------------
\* C15: no call on the queue or on a reader fails: for every reader, in every
\* reachable state, each of the two offsets is computed without overflow and
\* is 0 when the reader's counter is not above the buffer's start marker, an
\* offset past the end of a buffer selects the empty slice, and a read that
\* finds nothing unseen returns the empty sequence or None.
C15_NoCallFails ==
    /\ ~op.panic
    /\ \A r \in Readers :
          made[r] =>
              LET L == last_event_count[r] IN
              /\ ~IndexFails(L)
              /\ a_index(L) \in Nat /\ b_index(L) \in Nat
              /\ L <= a_start_event_count => a_index(L) = 0
              /\ L <= b_start_event_count => b_index(L) = 0
              /\ a_index(L) > Len(events_a) => SliceFrom(events_a, a_index(L)) = <<>>
              /\ b_index(L) > Len(events_b) => SliceFrom(events_b, b_index(L)) = <<>>
    /\ (op.name \in ReadNames /\ Candidates(op.last_before) = {})
          => op.result = <<>>

\* A read that found nothing, by a reader whose offset is past the end of a
\* buffer, while the other reader's counter is below a start marker.
C15_Witness ==
    /\ op.name \in ReadNames
    /\ op.result = <<>>
    /\ \/ a_index(op.last_before) > Len(events_a)
       \/ b_index(op.last_before) > Len(events_b)
    /\ \E s \in Readers \ {op.reader} :
          /\ made[s]
          /\ \/ last_event_count[s] < a_start_event_count
             \/ last_event_count[s] < b_start_event_count

----------------------------------------------------------------------------
C14_State ==
    /\ panicked <=> (op.name = "get_event_reader" /\ op.panic)
    /\ op.name = "get_event_reader" =>
          /\ op.panic <=> EventsT \notin resources
          /\ ~op.panic => made[op.reader] /\ last_event_count[op.reader] = 0
    /\ EventsT \notin resources => \A r \in Readers : ~made[r]

C14_Step ==
    op'.name = "get_event_reader" =>
        /\ queue' = queue
        /\ resources' = resources
        /\ sent' = sent
        /\ \A s \in Readers \ {op'.reader} :
              made'[s] = made[s] /\ last_event_count'[s] = last_event_count[s]
        /\ IF EventsT \in resources
           THEN ~panicked' /\ made'[op'.reader]
                           /\ last_event_count'[op'.reader] = 0
           ELSE panicked' /\ readers' = readers

\* C14: get_event_reader panics exactly when the resources hold no queue of
\* the event type, and then no reader is made, no queue is added to the
\* resources and nothing else changes; when they hold one, it makes a reader
\* whose last_event_count is 0 and leaves the resources and the queue as they
\* were.
C14_RegistryLookup == [](C14_State) /\ [][C14_Step]_vars

\* get_event_reader has panicked on a queue that holds events and is not
\* among the resources.
C14_Witness ==
    /\ op.name = "get_event_reader"
    /\ op.panic
    /\ panicked
    /\ resources = {}
    /\ event_count > 0
    /\ \A r \in Readers : ~made[r]

----------------------------------------------------------------------------
\* The number of updates before the instance was sent.
Epoch(i) == sent[i.event_count + 1].epoch

\* What a reader has been yielded so far followed by what its next iter
\* would yield.
Observes(r) == run[r].delivered \o IterInstances(last_event_count[r])

\* C11: for every reader that has called iter between every two consecutive
\* updates of its lifetime, however many readers there are and whenever they
\* read: of two events with an update between their sends, the one sent
\* before the update is yielded before the other; and from the first event
\* the reader is yielded on, it is yielded every event sent, none skipped.
C11_OrderAcrossUpdates ==
    \A r \in Readers :
        (made[r] /\ run[r].regular) =>
            LET d == Observes(r) IN
            /\ \A i, j \in 1..Len(d) : Epoch(d[i]) < Epoch(d[j]) => i < j
            /\ \A i \in 1..Len(d) : d[i] = InstanceOf(sent[d[i].event_count + 1])
            /\ \A i \in 1..(Len(d) - 1) : d[i + 1].event_count = d[i].event_count + 1
            /\ d # <<>> => d[Len(d)].event_count = event_count - 1

\* Two readers, made at different times, that have read at different times,
\* have each been yielded events sent before and after an update.
C11_Witness ==
    /\ \A r \in Readers :
          /\ made[r] /\ run[r].regular
          /\ \E i, j \in 1..Len(run[r].delivered) :
                Epoch(run[r].delivered[i]) < Epoch(run[r].delivered[j])
    /\ \E r, s \in Readers :
          /\ run[r].delivered[1].event_count # run[s].delivered[1].event_count
          /\ last_event_count[r] # last_event_count[s]

----------------------------------------------------------------------------
\* C21: for a reader that calls iter as often or as rarely as it likes, under
\* any interleaving with send and update, the concatenation of everything its
\* iters have yielded, followed by what its next iter would yield, has
\* strictly increasing sequence numbers and consists of instances that were
\* sent: no event is yielded to it twice and none out of send order; and
\* what an iter has just yielded lies at or above the reader's counter
\* before the call, above everything yielded to it before.
C21_DeliveredStrictlyIncreasing ==
    \A r \in Observed :
        LET d == run[r].delivered
            n == IF made[r] THEN IterInstances(last_event_count[r]) ELSE <<>>
        IN
        /\ StrictlyIncreasing(SeqNums(d \o n))
        /\ \A i \in 1..Len(d) : d[i] = InstanceOf(sent[d[i].event_count + 1])
        /\ \A i, j \in 1..Len(d) : d[i] = d[j] => i = j
        /\ \A i \in 1..Len(d) : d[i].event_count < last_event_count[r]
        /\ JustRead(r) =>
              /\ d = SubSeq(d, 1, Len(d) - Len(op.instances)) \o op.instances
              /\ \A i \in 1..Len(op.instances) :
                    op.instances[i].event_count >= op.last_before
              /\ \A i \in 1..(Len(d) - Len(op.instances)) :
                    d[i].event_count < op.last_before

\* A reader that let two updates pass without reading has read twice and
\* been yielded two events with a lost event between them.
C21_Witness ==
    \E r \in Observed :
        /\ JustRead(r)
        /\ ~run[r].faithful
        /\ run[r].reads = 2
        /\ op.instances # <<>>
        /\ Len(run[r].delivered) = 2
        /\ run[r].delivered[2].event_count > run[r].delivered[1].event_count + 1

====
